---- MODULE Spec2Model ----
(***************************************************************************)
(* A model of core/time.py: the short-duration grammar (ShortTime), the    *)
(* natural-language variants (HumanTime, Time, FutureTime), the splitting  *)
(* converter UserFriendlyTime and the formatter human_timedelta.           *)
(*                                                                         *)
(* A Python str is a sequence of one-character strings.  A datetime is a   *)
(* record [y, mo, d, tod] with tod the second of the day.  parsedatetime   *)
(* and the secondary converter are external: their answers are drawn from  *)
(* small sets.                                                             *)
(***************************************************************************)
EXTENDS Integers, Sequences, FiniteSets, TLC

\* ------------------------------------------------------------ bounds

\* Longest free-form argument (over Alphabet) handed to the converter.
MaxLen == 4

\* Most unit tokens ("12w", "2h", ...) concatenated into one argument.
MaxTokens == 2

\* ------------------------------------------------------ Python strings

Quote == "\""

Min(a, b) == IF a < b THEN a ELSE b

Max(a, b) == IF a > b THEN a ELSE b

\* s[lo:hi] for 0 <= lo, 0 <= hi (Python clamps both to len(s)).
Slice(s, lo, hi) == SubSeq(s, Min(lo, Len(s)) + 1, Min(hi, Len(s)))

\* s[lo:]
SliceFrom(s, lo) == Slice(s, lo, Len(s))

\* s[:-n] for n > 0: a negative stop counts from the end and clamps at 0.
SliceDropLast(s, n) == Slice(s, 0, Max(0, Len(s) - n))

StartsWith(s, p) == Len(s) >= Len(p) /\ SubSeq(s, 1, Len(p)) = p

\* s[pos:].startswith(p)
StartsWithAt(s, pos, p) ==
    pos + Len(p) <= Len(s) /\ SubSeq(s, pos + 1, pos + Len(p)) = p

EndsWith(s, p) ==
    Len(s) >= Len(p) /\ SubSeq(s, Len(s) - Len(p) + 1, Len(s)) = p

RECURSIVE LStripChars(_, _)
\* s.lstrip(chars)
LStripChars(s, chars) ==
    IF s # <<>> /\ Head(s) \in chars THEN LStripChars(Tail(s), chars) ELSE s

RECURSIVE RStripChars(_, _)
\* s.rstrip(chars)
RStripChars(s, chars) ==
    IF s # <<>> /\ s[Len(s)] \in chars
    THEN RStripChars(SubSeq(s, 1, Len(s) - 1), chars)
    ELSE s

\* The whitespace str.strip() removes (the model's alphabet holds only " ").
Whitespace == {" "}

\* s.strip()
Strip(s) == RStripChars(LStripChars(s, Whitespace), Whitespace)

\* ------------------------------------------- ShortTime.compiled (regex)

DigitChars == {"0", "1", "2", "3", "4", "5", "6", "7", "8", "9"}

DigitVal(c) ==
    CASE c = "0" -> 0 [] c = "1" -> 1 [] c = "2" -> 2 [] c = "3" -> 3
      [] c = "4" -> 4 [] c = "5" -> 5 [] c = "6" -> 6 [] c = "7" -> 7
      [] c = "8" -> 8 [] c = "9" -> 9

RECURSIVE PyInt(_)
\* int(v) for a string of decimal digits
PyInt(v) ==
    IF v = <<>> THEN 0
    ELSE 10 * PyInt(SubSeq(v, 1, Len(v) - 1)) + DigitVal(v[Len(v)])

UnitNames == <<"years", "months", "weeks", "days", "hours", "minutes", "seconds">>

\* One line of the pattern per unit: at most maxDigits digits, then
\* stem (mid)? s? | short.
Groups ==
    [years   |-> [maxDigits |-> 1, stem |-> <<"y","e","a","r">>,
                  mid |-> <<>>, short |-> <<"y">>],
     months  |-> [maxDigits |-> 2, stem |-> <<"m","o","n","t","h">>,
                  mid |-> <<>>, short |-> <<"m","o">>],
     weeks   |-> [maxDigits |-> 4, stem |-> <<"w","e","e","k">>,
                  mid |-> <<>>, short |-> <<"w">>],
     days    |-> [maxDigits |-> 5, stem |-> <<"d","a","y">>,
                  mid |-> <<>>, short |-> <<"d">>],
     hours   |-> [maxDigits |-> 5, stem |-> <<"h","o","u","r">>,
                  mid |-> <<>>, short |-> <<"h">>],
     minutes |-> [maxDigits |-> 5, stem |-> <<"m","i","n">>,
                  mid |-> <<"u","t","e">>, short |-> <<"m">>],
     seconds |-> [maxDigits |-> 5, stem |-> <<"s","e","c">>,
                  mid |-> <<"o","n","d">>, short |-> <<"s">>]]

RECURSIVE DigitRun(_, _)
\* Number of consecutive digits of s from offset pos.
DigitRun(s, pos) ==
    IF pos < Len(s) /\ s[pos + 1] \in DigitChars THEN 1 + DigitRun(s, pos + 1) ELSE 0

\* Offset after the unit word of group g at offset pos, or -1: the first
\* alternative is the stem with its greedy optional parts, the second the short form.
UnitEnd(s, pos, g) ==
    IF StartsWithAt(s, pos, g.stem)
    THEN LET p1 == pos + Len(g.stem)
             p2 == IF g.mid # <<>> /\ StartsWithAt(s, p1, g.mid)
                   THEN p1 + Len(g.mid) ELSE p1
         IN  IF StartsWithAt(s, p2, <<"s">>) THEN p2 + 1 ELSE p2
    ELSE IF StartsWithAt(s, pos, g.short) THEN pos + Len(g.short)
    ELSE -1

\* One optional group (?:(?P<name>[0-9]{1,n})(?:unit))? tried at offset pos.
\* Fewer digits than the whole run leave a digit where the unit must start, so the
\* group takes part only when the run has 1..n digits and the unit follows it.
GroupAt(s, pos, g) ==
    LET run == DigitRun(s, pos)
        e   == IF run >= 1 /\ run <= g.maxDigits THEN UnitEnd(s, pos + run, g) ELSE -1
    IN  IF e >= 0
        THEN [took |-> TRUE, digits |-> SubSeq(s, pos + 1, pos + run), end |-> e]
        ELSE [took |-> FALSE, digits |-> <<>>, end |-> pos]

RECURSIVE MatchFrom(_, _, _)
\* The groups from the k-th on, tried in pattern order from offset pos.  Every
\* group is optional, so the rest always matches and nothing is backtracked.
MatchFrom(s, pos, k) ==
    IF k > Len(UnitNames) THEN [end |-> pos, took |-> {}, digits |-> <<>>]
    ELSE LET r    == GroupAt(s, pos, Groups[UnitNames[k]])
             rest == MatchFrom(s, r.end, k + 1)
         IN  [end    |-> rest.end,
              took   |-> IF r.took THEN rest.took \cup {UnitNames[k]} ELSE rest.took,
              digits |-> <<r.digits>> \o rest.digits]

\* regex.match(argument): anchored at the start; never None, as the empty
\* string matches.  digits[k] is the k-th group's text where it took part.
RegexMatch(s) == MatchFrom(s, 0, 1)

\* groupdict with a default of "1" for the groups that took no part.
GroupDictOnes(m) ==
    [k \in 1..Len(UnitNames) |->
        IF UnitNames[k] \in m.took THEN m.digits[k] ELSE <<"1">>]

\* match.groupdict(default="0")
GroupDict(m) ==
    [k \in 1..Len(UnitNames) |->
        IF UnitNames[k] \in m.took THEN m.digits[k] ELSE <<"0">>]

\* {k: int(v) for k, v in match.groupdict(default="0").items()}
ShortData(m) ==
    LET gd == GroupDict(m)
    IN  [years   |-> PyInt(gd[1]), months  |-> PyInt(gd[2]), weeks   |-> PyInt(gd[3]),
         days    |-> PyInt(gd[4]), hours   |-> PyInt(gd[5]), minutes |-> PyInt(gd[6]),
         seconds |-> PyInt(gd[7])]

\* ------------------------------------------------------------ datetime

IsLeap(y) == (y % 4 = 0 /\ y % 100 # 0) \/ y % 400 = 0

\* calendar.monthrange(y, mo)[1]
DaysInMonth(y, mo) ==
    IF mo = 2 THEN (IF IsLeap(y) THEN 29 ELSE 28)
    ELSE IF mo \in {4, 6, 9, 11} THEN 30 ELSE 31

SecondsPerDay == 24 * 60 * 60

\* dt < other: datetimes order by (year, month, day, time of day).
DtLess(a, b) ==
    \/ a.y < b.y
    \/ a.y = b.y /\ a.mo < b.mo
    \/ a.y = b.y /\ a.mo = b.mo /\ a.d < b.d
    \/ a.y = b.y /\ a.mo = b.mo /\ a.d = b.d /\ a.tod < b.tod

RECURSIVE AddDays(_, _)
\* dt + timedelta(days=n), n >= 0, a month at a time.
AddDays(dt, n) ==
    IF dt.d + n <= DaysInMonth(dt.y, dt.mo) THEN [dt EXCEPT !.d = dt.d + n]
    ELSE AddDays([dt EXCEPT !.d  = 1,
                            !.mo = IF dt.mo = 12 THEN 1 ELSE dt.mo + 1,
                            !.y  = IF dt.mo = 12 THEN dt.y + 1 ELSE dt.y],
                 n - (DaysInMonth(dt.y, dt.mo) - dt.d + 1))

\* dt - timedelta(days=1)
DayBefore(dt) ==
    IF dt.d > 1 THEN [dt EXCEPT !.d = dt.d - 1]
    ELSE IF dt.mo > 1
         THEN [dt EXCEPT !.mo = dt.mo - 1, !.d = DaysInMonth(dt.y, dt.mo - 1)]
         ELSE [dt EXCEPT !.y = dt.y - 1, !.mo = 12, !.d = 31]

\* dt + timedelta(seconds=n), n >= 0
AddSeconds(dt, n) ==
    LET total == dt.tod + n
    IN  AddDays([dt EXCEPT !.tod = total % SecondsPerDay], total \div SecondsPerDay)

\* relativedelta(**data): weeks fold into days, and _fix() carries seconds into
\* minutes, minutes into hours, hours into days and months into years.
RelativeDelta(data) ==
    LET mins  == data.minutes + data.seconds \div 60
        hrs   == data.hours + mins \div 60
        dys   == data.days + 7 * data.weeks + hrs \div 24
    IN  [years   |-> data.years + data.months \div 12,
         months  |-> data.months % 12,
         days    |-> dys,
         hours   |-> hrs % 24,
         minutes |-> mins % 60,
         seconds |-> data.seconds % 60]

\* dt + rd (relativedelta.__radd__): the year and month move first, the day is
\* cut to the target month's length, and the rest is added as a timedelta.
DtPlus(dt, rd) ==
    LET m0    == dt.mo + rd.months
        year  == dt.y + rd.years + (IF m0 > 12 THEN 1 ELSE 0)
        month == IF m0 > 12 THEN m0 - 12 ELSE m0
        day   == Min(DaysInMonth(year, month), dt.d)
        base  == [y |-> year, mo |-> month, d |-> day, tod |-> dt.tod]
    IN  AddSeconds(AddDays(base, rd.days),
                   3600 * rd.hours + 60 * rd.minutes + rd.seconds)

\* dt.replace(day=day): datetime raises ValueError when the month has no such day.
ReplaceDay(dt, day) ==
    IF day >= 1 /\ day <= DaysInMonth(dt.y, dt.mo)
    THEN [ok |-> TRUE, dt |-> [dt EXCEPT !.d = day]]
    ELSE [ok |-> FALSE, dt |-> dt]

\* dt.replace(hour=now.hour, minute=now.minute, second=now.second,
\*            microsecond=now.microsecond)
ReplaceTimeOfDay(dt, now) == [dt EXCEPT !.tod = now.tod]

\* ------------------------------------------- UserFriendlyTime.convert

\* " fra nu", the trailing phrase convert() looks for.
FromNow == <<" ", "f", "r", "a", " ", "n", "u">>

ForPrefix == <<"f", "o", "r", " ">>

MePrefixes ==
    { <<"m", "e", " ", "t", "o", " ">>,
      <<"m", "e", " ", "i", "n", " ">>,
      <<"m", "e", " ", "a", "t", " ">> }

\* if argument.endswith(" fra nu"): argument = argument[:-9].strip()
StripFromNow(argument) ==
    IF EndsWith(argument, FromNow) THEN Strip(SliceDropLast(argument, 9)) ELSE argument

\* if argument.startswith("for "): argument = argument[4:].strip()
StripFor(argument) ==
    IF StartsWith(argument, ForPrefix) THEN Strip(SliceFrom(argument, 4)) ELSE argument

\* The "me" step without its inner test: six characters go whenever the text
\* starts with "me".
StripMeAlways(argument) ==
    IF Slice(argument, 0, 2) = <<"m", "e">> THEN SliceFrom(argument, 6) ELSE argument

\* if argument[0:2] == "me": if argument[0:6] in (...): argument = argument[6:]
StripMe(argument) ==
    IF Slice(argument, 0, 2) = <<"m", "e">>
    THEN (IF Slice(argument, 0, 6) \in MePrefixes THEN SliceFrom(argument, 6) ELSE argument)
    ELSE argument

\* The argument handed to calendar.nlp.
Normalize(argument) == StripMe(StripFor(StripFromNow(argument)))

\* The characters of .lstrip(" ,.!")
Punctuation == {" ", ",", ".", "!"}

ZeroData ==
    [years |-> 0, months |-> 0, weeks |-> 0, days |-> 0,
     hours |-> 0, minutes |-> 0, seconds |-> 0]

NoneDt == [y |-> 0, mo |-> 0, d |-> 0, tod |-> 0]

\* calendar.nlp returned None or an empty tuple.
NoElement ==
    [found |-> FALSE, dt |-> NoneDt, hasDate |-> FALSE, hasTime |-> FALSE,
     halfday |-> FALSE, begin |-> 0, end |-> 0]

\* The location test with "or" for "and".
BadLocationEither(begin, end, argument) == begin \notin {0, 1} \/ end # Len(argument)

\* if begin not in (0, 1) and end != len(argument): raise BadArgument(...)
BadLocation(begin, end, argument) == begin \notin {0, 1} /\ end # Len(argument)

\* if argument[0] != '"': raise BadArgument("Expected quote before time input...")
MissingOpeningQuote(argument) == argument[1] # Quote

\* The closing-quote test without the look at the character after the match.
MissingClosingQuoteAtEnd(argument, end) == ~(end < Len(argument))

\* if not (end < len(argument) and argument[end] == '"'): raise BadArgument(...)
MissingClosingQuote(argument, end) ==
    ~(end < Len(argument) /\ argument[end + 1] = Quote)

\* The past check with <= for <.
NotInTheFuture(dt, now) == ~DtLess(now, dt)

\* check_constraints: if self.dt < now: raise BadArgument("This time is in the past.")
InThePast(dt, now) == DtLess(dt, now)

\* The locals and the self fields of one call of convert(), as they stand when the
\* call first stops: at a raise, at the await in check_constraints, or at its return.
\* nlpCalled and pastChecked record which calls were made, round whether the
\* argument is a user's text (1) or the remaining text of an earlier result (2).
NewFrame(argument, now) ==
    [raw |-> argument, now |-> now, dt |-> now, fromNow |-> argument,
     argument |-> argument, short |-> FALSE, data |-> ZeroData,
     nlpCalled |-> FALSE, el |-> NoElement, remaining |-> <<>>,
     pastChecked |-> FALSE, exc |-> "none", round |-> 1]

\* check_constraints(ctx, now, remaining) up to its await.
CheckConstraints(f, remaining) ==
    [f EXCEPT !.remaining = remaining, !.pastChecked = TRUE,
              !.exc = IF InThePast(f.dt, f.now) THEN "PastTime" ELSE "none"]

\* The part of convert() after the resolver reported a match with a date or a time.
Split(f, el) ==
    LET argument == f.argument
        now      == f.now
    IN  IF BadLocation(el.begin, el.end, argument)
        THEN [f EXCEPT !.exc = "BadLocation"]
        ELSE
        LET dt1 == IF ~el.hasTime THEN ReplaceTimeOfDay(el.dt, now) ELSE el.dt
            rep == IF el.halfday THEN ReplaceDay(dt1, now.d + 1)
                   ELSE [ok |-> TRUE, dt |-> dt1]
        IN  IF ~rep.ok THEN [f EXCEPT !.exc = "ValueError"]
            ELSE
            LET g == [f EXCEPT !.dt = rep.dt]
            IN  IF el.begin \in {0, 1}
                THEN IF el.begin = 1
                     THEN IF MissingOpeningQuote(argument)
                          THEN [g EXCEPT !.exc = "ExpectedQuote"]
                          ELSE IF MissingClosingQuote(argument, el.end)
                          THEN [g EXCEPT !.exc = "Unquote"]
                          ELSE CheckConstraints(g,
                                 LStripChars(SliceFrom(argument, el.end + 1), Punctuation))
                     ELSE CheckConstraints(g,
                            LStripChars(SliceFrom(argument, el.end), Punctuation))
                ELSE IF Len(argument) = el.end
                THEN CheckConstraints(g, Strip(Slice(argument, 0, el.begin)))
                ELSE CheckConstraints(g, <<>>)

\* convert(ctx, argument) from its first line to the first raise, await or return;
\* now is datetime.utcnow() and el is what calendar.nlp answers if it is asked.
ConvertSync(argument, now, el) ==
    LET f0    == NewFrame(argument, now)
        match == RegexMatch(argument)
    IN  IF match.end > 0
        THEN LET data == ShortData(match)
             IN  CheckConstraints(
                     [f0 EXCEPT !.short = TRUE, !.data = data,
                                !.dt = DtPlus(now, RelativeDelta(data))],
                     Strip(SliceFrom(argument, match.end)))
        ELSE
        LET f1 == [f0 EXCEPT !.fromNow = StripFromNow(argument),
                             !.argument = Normalize(argument),
                             !.nlpCalled = TRUE, !.el = el]
        IN  IF ~el.found THEN CheckConstraints(f1, f1.argument)
            ELSE IF ~(el.hasDate \/ el.hasTime) THEN CheckConstraints(f1, f1.argument)
            ELSE Split(f1, el)

\* ------------------------------------------------- inputs of the model

Noon == 12 * 60 * 60

\* datetime.utcnow(): an ordinary day, the last day of a month, the last of a year.
Nows ==
    { [y |-> 2023, mo |-> 6,  d |-> 15, tod |-> Noon],
      [y |-> 2023, mo |-> 1,  d |-> 31, tod |-> Noon],
      [y |-> 2023, mo |-> 12, d |-> 31, tod |-> Noon] }

\* What parsedatetime can report for a phrase, relative to the source time:
\* no date or time at all, "yesterday", "today", "midnight" (the half-day
\* accuracy), "in an hour", "an hour ago", "tomorrow at 5pm".
Phrases(now) ==
    { [dt |-> now, hasDate |-> FALSE, hasTime |-> FALSE, halfday |-> FALSE],
      [dt |-> [DayBefore(now) EXCEPT !.tod = 0],
       hasDate |-> TRUE, hasTime |-> FALSE, halfday |-> FALSE],
      [dt |-> [now EXCEPT !.tod = 0],
       hasDate |-> TRUE, hasTime |-> FALSE, halfday |-> FALSE],
      [dt |-> [now EXCEPT !.tod = 0],
       hasDate |-> FALSE, hasTime |-> TRUE, halfday |-> TRUE],
      [dt |-> [now EXCEPT !.tod = now.tod + 3600],
       hasDate |-> FALSE, hasTime |-> TRUE, halfday |-> FALSE],
      [dt |-> [now EXCEPT !.tod = now.tod - 3600],
       hasDate |-> FALSE, hasTime |-> TRUE, halfday |-> FALSE],
      [dt |-> [AddDays(now, 1) EXCEPT !.tod = 17 * 3600],
       hasDate |-> TRUE, hasTime |-> TRUE, halfday |-> FALSE] }

\* The spans (begin, end) a match can have in a text of n characters: all of them
\* in a short text; in a longer one those at the start, near the start and up to
\* the end.
Spans(n) ==
    { sp \in (0..n) \X (0..n) :
        /\ sp[1] < sp[2]
        /\ n <= MaxLen \/ (sp[1] <= 2 /\ sp[2] \in {sp[1] + 1, n - 1, n}) }

\* calendar.nlp(argument, sourceTime=now): nothing, or a first element
\* (dt, status, begin, end, text).
Elements(argument, now) ==
    {NoElement} \cup
    { [found |-> TRUE, dt |-> ph.dt, hasDate |-> ph.hasDate, hasTime |-> ph.hasTime,
       halfday |-> ph.halfday, begin |-> sp[1], end |-> sp[2]] :
        ph \in Phrases(now), sp \in Spans(Len(argument)) }

Alphabet == {Quote, "a", " "}

\* Every text over Alphabet of at most MaxLen characters.
FreeInputs == UNION { [1..n -> Alphabet] : n \in 0..MaxLen }

\* Unit tokens the grammar accepts: one or two digits and a unit word (the year
\* group takes a single digit).
Tokens ==
    { n \o u : n \in { <<"2">>, <<"1", "2">> },
               u \in { <<"m", "o">>, <<"w">>, <<"d">>, <<"h">>, <<"m">>, <<"s">>,
                       <<"m", "i", "n", "s">>, <<"s", "e", "c", "o", "n", "d">> } }
    \cup { <<"2", "y">> }

RECURSIVE TokenSeqs(_)
TokenSeqs(k) ==
    IF k = 0 THEN {<<>>}
    ELSE LET shorter == TokenSeqs(k - 1)
         IN  shorter \cup { p \o t : p \in shorter, t \in Tokens }

\* At most MaxTokens unit tokens, alone or followed by a payload.
DurationInputs ==
    { d \o t : d \in TokenSeqs(MaxTokens), t \in { <<>>, <<" ", "a", " ">> } }

\* Payloads with the phrases the normalization looks for.
PhraseInputs ==
    { p \o c \o t :
        p \in { <<>>, ForPrefix, <<"m", "e", " ", "t", "o", " ">>, <<"m", "e", " ">> },
        c \in { <<>>, <<"a">>, <<"a", "b", "c">> },
        t \in { <<>>, FromNow, <<"n", "u">> } }

\* A phrase at the start, quoted or not, then punctuation and a payload.
QuotedInputs ==
    { q1 \o <<"a">> \o q2 \o sep \o <<"b">> :
        q1 \in { <<>>, <<Quote>> }, q2 \in { <<>>, <<Quote>> },
        sep \in { <<>>, <<" ">>, <<",", " ">>, <<"!", ".">> } }

Inputs == FreeInputs \cup DurationInputs \cup PhraseInputs \cup QuotedInputs

\* ------------------------------------------------------ the state machine

VARIABLES
    self,    \* the UserFriendlyTime object: raw, dt, arg, now, converter
    pc,      \* per call of convert: "idle", "await", "done" (returned self), "raised"
    frame,   \* per call of convert: its locals (see NewFrame)
    tm,      \* the last Time(argument) or FutureTime(argument) constructed
    fmt      \* the last call of human_timedelta

vars == <<self, pc, frame, tm, fmt>>

NoneStr == <<"None">>

NoneArg == [kind |-> "None", text |-> <<>>]

\* UserFriendlyTime.__init__, with or without a secondary converter.
InitSelf ==
    self \in { [raw |-> NoneStr, dt |-> NoneDt, arg |-> NoneArg, now |-> NoneDt,
                converter |-> cv] : cv \in {"None", "Converter"} }

IdleFrame == NewFrame(NoneStr, NoneDt)

\* One call of convert() on a converter of its own.
Callers == {1}

NoTime ==
    [cls |-> "none", argument |-> NoneStr, now |-> NoneDt, pd |-> NoElement,
     nlpCalled |-> FALSE, dt |-> NoneDt, past |-> FALSE, exc |-> "none"]

NoFormat ==
    [called |-> FALSE, dt |-> NoneDt, source |-> NoneDt, raised |-> "none", text |-> <<>>]

\* A converter nobody has called yet, for the calls of the set callers.
InitConverter(callers) ==
    /\ InitSelf
    /\ pc = [c \in callers |-> "idle"]
    /\ frame = [c \in callers |-> IdleFrame]
    /\ tm = NoTime
    /\ fmt = NoFormat

Init == InitConverter(Callers)

\* Call c runs convert() up to its first raise, await or return.
Start(c, f) ==
    LET to == IF f.exc # "none" THEN "raised"
              ELSE IF self.converter # "None" THEN "await" ELSE "done"
    IN  /\ self' = [self EXCEPT !.raw = f.raw, !.dt = f.dt, !.now = f.now,
                                !.arg = IF to = "done"
                                        THEN [kind |-> "str", text |-> f.remaining]
                                        ELSE @]
        /\ pc' = [pc EXCEPT ![c] = to]
        /\ frame' = [frame EXCEPT ![c] = f]
        /\ UNCHANGED <<tm, fmt>>

Convert(c, argument) ==
    \E now \in Nows :
        \E el \in IF RegexMatch(argument).end > 0 THEN {NoElement}
                  ELSE Elements(Normalize(argument), now) :
            Start(c, ConvertSync(argument, now, el))

Call(c) ==
    /\ pc[c] = "idle"
    /\ \E argument \in Inputs : Convert(c, argument)

\* self.arg = await self.converter.convert(ctx, remaining); return self
ConverterReturns(c) ==
    /\ pc[c] = "await"
    /\ self' = [self EXCEPT !.arg = [kind |-> "converted", text |-> frame[c].remaining]]
    /\ pc' = [pc EXCEPT ![c] = "done"]
    /\ UNCHANGED <<frame, tm, fmt>>

\* The secondary converter raises; convert() logs and re-raises.
ConverterRaises(c) ==
    /\ pc[c] = "await"
    /\ pc' = [pc EXCEPT ![c] = "raised"]
    /\ frame' = [frame EXCEPT ![c].exc = "ConverterError"]
    /\ UNCHANGED <<self, tm, fmt>>

Next ==
    \/ \E c \in Callers : Call(c)
    \/ \E c \in Callers : ConverterReturns(c)
    \/ \E c \in Callers : ConverterRaises(c)

Spec == Init /\ [][Next]_vars

\* ------------------------------- a second conversion of the remaining text

\* Texts whose remaining part may itself look like a phrase of the normalization.
AgainInputs ==
    { d \o t :
        d \in { <<>>, <<"2", "h", " ">> },
        t \in { <<>>, <<"a">>, <<"a", " ", "a">>, ForPrefix \o <<"a">>,
                <<"m", "e", " ", "t", "o", " ", "a">>, <<"m", "e", " ", "a">>,
                <<"a">> \o FromNow, <<"f", "o", "r">>, <<"2", "h">>,
                <<Quote, "a", Quote, " ", "a">> } }

CallFirst(c) ==
    /\ pc[c] = "idle"
    /\ \E argument \in AgainInputs : Convert(c, argument)

\* The caller feeds the remaining text of its result to the same converter again.
Reconvert(c) ==
    /\ pc[c] = "done"
    /\ frame[c].round = 1
    /\ \E now \in Nows :
        LET argument == frame[c].remaining
        IN  \E el \in IF RegexMatch(argument).end > 0 THEN {NoElement}
                      ELSE Elements(Normalize(argument), now) :
                Start(c, [ConvertSync(argument, now, el) EXCEPT !.round = 2])

NextAgain ==
    \/ \E c \in Callers : CallFirst(c)
    \/ \E c \in Callers : Reconvert(c)
    \/ \E c \in Callers : ConverterReturns(c)
    \/ \E c \in Callers : ConverterRaises(c)

SpecAgain == Init /\ [][NextAgain]_vars

\* --------------------------------------- two calls on one converter object

\* Two commands being converted by the one UserFriendlyTime instance.
SharedCallers == {1, 2}

SharedInputs ==
    { <<"2", "h", " ", "a">>, <<"1", "2", "d", " ", "b">>, <<"a", "b">> }

CallShared(c) ==
    /\ pc[c] = "idle"
    /\ \E argument \in SharedInputs : Convert(c, argument)

NextShared ==
    \/ \E c \in SharedCallers : CallShared(c)
    \/ \E c \in SharedCallers : ConverterReturns(c)
    \/ \E c \in SharedCallers : ConverterRaises(c)

SpecShared == InitConverter(SharedCallers) /\ [][NextShared]_vars

\* ------------------------------------------ ShortTime, HumanTime, Time, FutureTime

\* match() for fullmatch(): a prefix is enough.
PrefixMatch(argument) == RegexMatch(argument).end <= Len(argument)

\* self.compiled.fullmatch(argument) is not None
FullMatch(argument) == RegexMatch(argument).end = Len(argument)

\* ShortTime.__init__: raises unless the whole argument is a non-empty match.
ShortTimeInit(argument, now) ==
    LET match == RegexMatch(argument)
    IN  IF ~FullMatch(argument) \/ match.end = 0
        THEN [exc |-> "BadArgument", dt |-> NoneDt]
        ELSE [exc |-> "none", dt |-> DtPlus(now, RelativeDelta(ShortData(match)))]

\* self._past = dt < now
IsPast(dt, now) == DtLess(dt, now)

\* HumanTime.__init__; pd is what calendar.parseDT answers.
HumanTimeInit(argument, now, pd) ==
    IF ~(pd.hasDate \/ pd.hasTime)
    THEN [cls |-> "HumanTime", argument |-> argument, now |-> now, pd |-> pd,
          nlpCalled |-> TRUE, dt |-> NoneDt, past |-> FALSE, exc |-> "BadArgument"]
    ELSE LET dt == IF ~pd.hasTime THEN ReplaceTimeOfDay(pd.dt, now) ELSE pd.dt
         IN  [cls |-> "HumanTime", argument |-> argument, now |-> now, pd |-> pd,
              nlpCalled |-> TRUE, dt |-> dt, past |-> IsPast(dt, now), exc |-> "none"]

\* Time.__init__: ShortTime first, HumanTime when it raises.
TimeInit(argument, now, pd) ==
    LET short == ShortTimeInit(argument, now)
    IN  IF short.exc # "none"
        THEN [HumanTimeInit(argument, now, pd) EXCEPT !.cls = "Time"]
        ELSE [cls |-> "Time", argument |-> argument, now |-> now, pd |-> NoElement,
              nlpCalled |-> FALSE, dt |-> short.dt, past |-> FALSE, exc |-> "none"]

\* FutureTime.__init__
FutureTimeInit(argument, now, pd) ==
    LET t == [TimeInit(argument, now, pd) EXCEPT !.cls = "FutureTime"]
    IN  IF t.exc = "none" /\ t.past THEN [t EXCEPT !.exc = "PastTime"] ELSE t

\* calendar.parseDT(argument, sourceTime=now): (dt, status).
ParseDT(now) ==
    { [found |-> TRUE, dt |-> ph.dt, hasDate |-> ph.hasDate, hasTime |-> ph.hasTime,
       halfday |-> ph.halfday, begin |-> 0, end |-> 0] : ph \in Phrases(now) }

TimeInputs == FreeInputs \cup DurationInputs

\* The answers parseDT can give if it is asked about argument.  Each object is
\* constructed once: tm holds the one the behaviour constructs.
Asked(argument, now) ==
    IF ShortTimeInit(argument, now).exc = "none" THEN {NoElement} ELSE ParseDT(now)

NewTime ==
    /\ tm = NoTime
    /\ \E argument \in TimeInputs, now \in Nows :
        \E pd \in Asked(argument, now) :
            /\ tm' = TimeInit(argument, now, pd)
            /\ UNCHANGED <<self, pc, frame, fmt>>

NewFutureTime ==
    /\ tm = NoTime
    /\ \E argument \in TimeInputs, now \in Nows :
        \E pd \in Asked(argument, now) :
            /\ tm' = FutureTimeInit(argument, now, pd)
            /\ UNCHANGED <<self, pc, frame, fmt>>

NextTime == NewTime \/ NewFutureTime

SpecTime == Init /\ [][NextTime]_vars

\* ------------------------------------------------------- human_timedelta

\* Instants with microseconds: [y, mo, d, tod, us].
FmtLess(a, b) == DtLess(a, b) \/ (~DtLess(b, a) /\ a.us < b.us)

\* dt + relativedelta(months=n), n >= 0: the day is cut to the month's length.
PlusMonths(dt, n) ==
    LET m0    == dt.mo - 1 + n
        year  == dt.y + m0 \div 12
        month == (m0 % 12) + 1
    IN  [dt EXCEPT !.y = year, !.mo = month, !.d = Min(DaysInMonth(year, month), dt.d)]

RECURSIVE DaysBetween(_, _)
\* (b - a).days for dates a <= b, a month at a time.
DaysBetween(a, b) ==
    IF a.y = b.y /\ a.mo = b.mo THEN b.d - a.d
    ELSE DaysInMonth(a.y, a.mo) - a.d + 1
         + DaysBetween([a EXCEPT !.d  = 1,
                                 !.mo = IF a.mo = 12 THEN 1 ELSE a.mo + 1,
                                 !.y  = IF a.mo = 12 THEN a.y + 1 ELSE a.y], b)

Attr(name, value) == name :> value

\* A relativedelta as getattr sees it: attribute name -> value.
DeltaObject(years, months, days, hours, minutes, seconds, microseconds) ==
    Attr(<<"y","e","a","r","s">>, years)
    @@ Attr(<<"m","o","n","t","h","s">>, months)
    @@ Attr(<<"d","a","y","s">>, days)
    @@ Attr(<<"h","o","u","r","s">>, hours)
    @@ Attr(<<"m","i","n","u","t","e","s">>, minutes)
    @@ Attr(<<"s","e","c","o","n","d","s">>, seconds)
    @@ Attr(<<"m","i","c","r","o","s","e","c","o","n","d","s">>, microseconds)

\* The delta of whole months and seconds, carried as relativedelta._fix() does.
Fixed(months, seconds, microseconds) ==
    DeltaObject(months \div 12, months % 12, seconds \div 86400,
                (seconds % 86400) \div 3600, (seconds % 3600) \div 60, seconds % 60,
                microseconds)

\* relativedelta(dt1, dt2) for dt1 >= dt2: the whole months between them, taking
\* one back when dt2 plus them passes dt1, then the rest in seconds.
RelativeDeltaBetween(dt1, dt2) ==
    LET m0     == (dt1.y - dt2.y) * 12 + (dt1.mo - dt2.mo)
        months == IF FmtLess(dt1, PlusMonths(dt2, m0)) THEN m0 - 1 ELSE m0
        dtm    == PlusMonths(dt2, months)
        secs   == DaysBetween(dtm, dt1) * 86400 + dt1.tod - dtm.tod
        borrow == IF dt1.us < dtm.us THEN 1 ELSE 0
    IN  Fixed(months, secs - borrow, dt1.us - dtm.us + borrow * 1000000)

Seconds == <<"s","e","c","o","n","d","s">>

Microseconds == <<"m","i","c","r","o","s","e","c","o","n","d","s">>

\* delta + relativedelta(seconds=+1)
PlusOneSecond(delta) ==
    LET secs == delta[Seconds] + 1
        mins == delta[<<"m","i","n","u","t","e","s">>] + secs \div 60
        hrs  == delta[<<"h","o","u","r","s">>] + mins \div 60
    IN  DeltaObject(delta[<<"y","e","a","r","s">>], delta[<<"m","o","n","t","h","s">>],
                    delta[<<"d","a","y","s">>] + hrs \div 24, hrs % 24, mins % 60,
                    secs % 60, delta[Microseconds])

\* attrs = ["år", "måneder", "dage", "timer", "minutter", "sekunder"]
attrs ==
    << <<"å","r">>, <<"m","å","n","e","d","e","r">>, <<"d","a","g","e">>,
       <<"t","i","m","e","r">>, <<"m","i","n","u","t","t","e","r">>,
       <<"s","e","k","u","n","d","e","r">> >>

RECURSIVE Decimal(_)
\* str(n) for n >= 0
Decimal(n) ==
    LET digit == CHOOSE c \in DigitChars : DigitVal(c) = n % 10
    IN  IF n < 10 THEN <<digit>> ELSE Decimal(n \div 10) \o <<digit>>

\* f"{elem} {attr}" for elem > 1, f"{elem} {attr[:-1]}" otherwise.
Component(elem, attr) ==
    IF elem > 1 THEN Decimal(elem) \o <<" ">> \o attr
    ELSE Decimal(elem) \o <<" ">> \o SliceDropLast(attr, 1)

RECURSIVE Collect(_, _, _)
\* The for loop over attrs from the k-th name on: getattr raises AttributeError
\* for a name the delta does not have.
Collect(delta, k, output) ==
    IF k > Len(attrs) THEN [raised |-> "none", output |-> output]
    ELSE IF attrs[k] \notin DOMAIN delta
    THEN [raised |-> "AttributeError", output |-> output]
    ELSE LET elem == delta[attrs[k]]
         IN  IF elem = 0 THEN Collect(delta, k + 1, output)
             ELSE Collect(delta, k + 1, Append(output, Component(elem, attrs[k])))

And == <<" ","a","n","d"," ">>

\* human_timedelta(dt, source=source)
human_timedelta(dt, source) ==
    LET now    == source
        future == FmtLess(now, dt)
        delta0 == IF future THEN RelativeDeltaBetween(dt, now)
                  ELSE RelativeDeltaBetween(now, dt)
        suffix == IF future THEN <<>> ELSE <<" ","s","i","d","e","n">>
        delta  == IF delta0[Microseconds] # 0 /\ delta0[Seconds] # 0
                  THEN PlusOneSecond(delta0) ELSE delta0
        loop   == Collect(delta, 1, <<>>)
        output == loop.output
    IN  IF loop.raised # "none" THEN [raised |-> loop.raised, text |-> <<>>]
        ELSE IF output = <<>> THEN [raised |-> "none", text |-> <<"n","o","w">>]
        ELSE IF Len(output) = 1 THEN [raised |-> "none", text |-> output[1] \o suffix]
        ELSE IF Len(output) = 2
        THEN [raised |-> "none", text |-> output[1] \o And \o output[2] \o suffix]
        ELSE [raised |-> "none",
              text |-> output[1] \o <<",", " ">> \o output[2] \o And \o output[3] \o suffix]

\* Pairs of instants up to a year, two months, three days and four hours apart,
\* with and without a fraction of a second.
FmtInstants ==
    { [y |-> y, mo |-> mo, d |-> d, tod |-> tod, us |-> us] :
        y \in {2023, 2024}, mo \in {1, 3}, d \in {28, 31},
        tod \in {Noon, Noon + 4 * 3600, Noon + 90}, us \in {0, 500000} }

Format ==
    /\ ~fmt.called
    /\ \E dt \in FmtInstants, source \in FmtInstants :
        LET r == human_timedelta(dt, source)
        IN  fmt' = [called |-> TRUE, dt |-> dt, source |-> source,
                    raised |-> r.raised, text |-> r.text]
    /\ UNCHANGED <<self, pc, frame, tm>>

NextFmt == Format

SpecFmt == Init /\ [][NextFmt]_vars

\* ------------------------------------------------------------- claims

Called(c) == pc[c] # "idle"

\* The resolver was asked and reported a match that has a date or a time.
Resolved(c) ==
    /\ Called(c)
    /\ frame[c].nlpCalled
    /\ frame[c].el.found
    /\ frame[c].el.hasDate \/ frame[c].el.hasTime

\* The secondary converter was never called by call c.
ConverterNotCalled(c) ==
    /\ pc[c] = "raised"
    /\ frame[c].exc # "ConverterError"
    /\ self.arg = NoneArg

\* C1: when the resolver reports a match with a date or a time, convert fails with
\* the inappropriate-location error exactly when the span begins at an offset other
\* than 0 or 1 and does not end at the end of the normalized input; then neither the
\* past check nor the secondary converter runs, and a match in the middle of the
\* input never gets as far as a result.
C1_Location ==
    \A c \in Callers :
        Resolved(c) =>
            LET f      == frame[c]
                middle == f.el.begin \notin {0, 1} /\ f.el.end # Len(f.argument)
            IN  /\ (f.exc = "BadLocation") <=> middle
                /\ f.exc = "BadLocation" => ~f.pastChecked /\ ConverterNotCalled(c)
                /\ middle => pc[c] = "raised"

\* A match in the middle of the input was refused.
C1_Witness ==
    \E c \in Callers :
        /\ Resolved(c)
        /\ frame[c].exc = "BadLocation"
        /\ frame[c].el.begin >= 2
        /\ frame[c].el.end < Len(frame[c].argument)

\* The text after the closing quote, as convert() hands it on.
AfterClosingQuote(f) == LStripChars(SliceFrom(f.argument, f.el.end + 1), Punctuation)

BothQuotes(f) ==
    /\ f.argument[1] = Quote
    /\ f.el.end < Len(f.argument)
    /\ f.argument[f.el.end + 1] = Quote

\* C2 as stated: a match beginning at offset 1 fails with the opening-quote error
\* when offset 0 holds no double quote, else with the closing-quote error when no
\* double quote follows the match, and otherwise succeeds with the text after the
\* closing quote, less its leading " ,.!", as remaining.  (Read in the claim's
\* favour: calls in which the half-day day replacement raised are left out.)
C2_AsStated ==
    \A c \in Callers :
        Resolved(c) /\ frame[c].el.begin = 1 /\ frame[c].exc # "ValueError" =>
            LET f == frame[c]
            IN  IF f.argument[1] # Quote THEN f.exc = "ExpectedQuote"
                ELSE IF ~BothQuotes(f) THEN f.exc = "Unquote"
                ELSE /\ f.exc \in {"none", "ConverterError"}
                     /\ f.remaining = AfterClosingQuote(f)

\* C2 amended: a match beginning at offset 1 gets to a result only with both
\* quotes in place; unless the half-day day replacement has raised first, a missing
\* opening quote gives the opening-quote error, else a missing closing quote the
\* closing-quote error, and else the text after the closing quote goes to the
\* constraint check, which still raises the past-time error for a past instant.
C2_Quotes ==
    \A c \in Callers :
        Resolved(c) /\ frame[c].el.begin = 1 =>
            LET f == frame[c]
            IN  /\ pc[c] \in {"await", "done"} => BothQuotes(f)
                /\ f.exc = "ValueError" =>
                       f.el.halfday /\ f.now.d + 1 > DaysInMonth(f.now.y, f.now.mo)
                /\ f.exc # "ValueError" =>
                       IF f.argument[1] # Quote THEN f.exc = "ExpectedQuote"
                       ELSE IF ~BothQuotes(f) THEN f.exc = "Unquote"
                       ELSE /\ f.remaining = AfterClosingQuote(f)
                            /\ f.pastChecked
                            /\ f.exc \in {"none", "PastTime", "ConverterError"}
                            /\ (f.exc = "PastTime") <=> DtLess(f.dt, f.now)

\* A quoted phrase at the start was split from a payload.
C2_Witness ==
    \E c \in Callers :
        /\ Resolved(c)
        /\ frame[c].el.begin = 1
        /\ BothQuotes(frame[c])
        /\ pc[c] = "done"
        /\ frame[c].remaining # <<>>
        /\ Len(frame[c].remaining) < Len(frame[c].argument) - frame[c].el.end - 1

\* The value check_constraints stores in self.arg before it returns.
SecondaryValue(remaining) ==
    IF self.converter = "None" THEN [kind |-> "str", text |-> remaining]
    ELSE [kind |-> "converted", text |-> remaining]

\* C3: the secondary converter is called only after the past check has passed: an
\* instant before now raises the past-time error and the converter is never called;
\* otherwise the returned secondary value is the converter's result on the
\* remaining text, or that text itself when no converter is configured.
C3_PastCheck ==
    \A c \in Callers :
        LET f == frame[c]
        IN  /\ f.pastChecked /\ DtLess(f.dt, f.now) =>
                f.exc = "PastTime" /\ ConverterNotCalled(c)
            /\ f.pastChecked /\ ~DtLess(f.dt, f.now) =>
                /\ f.exc \in {"none", "ConverterError"}
                /\ pc[c] = "await" => self.converter # "None"
                /\ pc[c] = "done" => self.arg = SecondaryValue(f.remaining)
            /\ (pc[c] \in {"await", "done"} \/ f.exc = "ConverterError") =>
                f.pastChecked /\ ~DtLess(f.dt, f.now)
            /\ self.arg # NoneArg => f.pastChecked /\ ~DtLess(f.dt, f.now)

\* A conversion passed the check at the very instant now and its remaining text
\* went through the secondary converter.
C3_Witness ==
    \E c \in Callers :
        /\ pc[c] = "done"
        /\ frame[c].dt = frame[c].now
        /\ frame[c].el.found
        /\ self.arg.kind = "converted"
        /\ self.arg.text # <<>>

\* The count of unit k in the text: the digits of its group, 0 for an absent group.
Count(m, k) == IF UnitNames[k] \in m.took THEN PyInt(m.digits[k]) ELSE 0

\* C4: when the grammar matches a non-empty prefix, the instant is now plus the
\* offset of exactly the parsed integers (absent units 0), remaining is the text
\* after the match, trimmed, the resolver is not consulted, and the past-time error
\* is never raised.
C4_ShortDuration ==
    \A c \in Callers :
        Called(c) /\ RegexMatch(frame[c].raw).end > 0 =>
            LET f == frame[c]
                m == RegexMatch(f.raw)
                offset == [years   |-> Count(m, 1), months  |-> Count(m, 2),
                           weeks   |-> Count(m, 3), days    |-> Count(m, 4),
                           hours   |-> Count(m, 5), minutes |-> Count(m, 6),
                           seconds |-> Count(m, 7)]
            IN  /\ self.now = f.now
                /\ self.dt = DtPlus(f.now, RelativeDelta(offset))
                /\ f.remaining = Strip(SubSeq(f.raw, m.end + 1, Len(f.raw)))
                /\ ~f.nlpCalled
                /\ f.exc # "PastTime"
                /\ ~DtLess(self.dt, self.now)

\* A duration of weeks and hours before a payload was converted.
C4_Witness ==
    \E c \in Callers :
        /\ pc[c] = "done"
        /\ frame[c].short
        /\ frame[c].data.weeks > 0
        /\ frame[c].data.hours > 0
        /\ frame[c].data.years = 0
        /\ frame[c].remaining = <<"a">>

\* C6: an input that ends with the trailing "from now" phrase loses exactly that
\* phrase and the whitespace around it, every character before it staying; any other
\* input is left as it is by this step.
C6_FromNow ==
    \A c \in Callers :
        Called(c) /\ frame[c].nlpCalled =>
            LET raw == frame[c].raw
            IN  frame[c].fromNow =
                    IF EndsWith(raw, FromNow)
                    THEN Strip(SubSeq(raw, 1, Len(raw) - Len(FromNow)))
                    ELSE raw

\* C7: with the half-day accuracy marker, whatever day now is, the adjustment does
\* not make the conversion fail and the instant lies on the day after now's day.
C7_NextMidnight ==
    \A c \in Callers :
        (/\ Resolved(c)
         /\ frame[c].el.halfday
         /\ ~BadLocation(frame[c].el.begin, frame[c].el.end, frame[c].argument)) =>
            LET f        == frame[c]
                tomorrow == AddDays(f.now, 1)
            IN  /\ f.exc # "ValueError"
                /\ <<self.dt.y, self.dt.mo, self.dt.d>> =
                       <<tomorrow.y, tomorrow.mo, tomorrow.d>>

\* The second conversion of call c was given a text in which the grammar matches
\* no non-empty prefix and the resolver finds nothing.
NoTimeLeft(c) ==
    /\ Called(c)
    /\ frame[c].round = 2
    /\ RegexMatch(frame[c].raw).end = 0
    /\ frame[c].nlpCalled
    /\ ~frame[c].el.found

\* C5 as stated: converting the remaining text of a successful conversion again,
\* when it holds no time phrase, succeeds, finds no time and returns the whole text
\* it was given as remaining.
C5_AsStated ==
    \A c \in Callers :
        NoTimeLeft(c) =>
            /\ frame[c].exc \in {"none", "ConverterError"}
            /\ frame[c].dt = frame[c].now
            /\ frame[c].remaining = frame[c].raw

\* C5 amended: such a second conversion raises no error of its own and finds no
\* time (the instant is now); the remaining text is the whole text it was given
\* provided that text does not end with " fra nu" and does not start with "for ",
\* "me to ", "me in " or "me at ", which the normalization removes.
C5_Idempotent ==
    \A c \in Callers :
        NoTimeLeft(c) =>
            LET raw == frame[c].raw
            IN  /\ frame[c].exc \in {"none", "ConverterError"}
                /\ frame[c].dt = frame[c].now
                /\ (/\ ~EndsWith(raw, FromNow)
                    /\ ~StartsWith(raw, ForPrefix)
                    /\ \A p \in MePrefixes : ~StartsWith(raw, p))
                   => frame[c].remaining = raw

\* A remaining text that starts with "me" went through a second time unchanged.
C5_Witness ==
    \E c \in Callers :
        /\ NoTimeLeft(c)
        /\ pc[c] = "done"
        /\ Len(frame[c].raw) > 2
        /\ frame[c].raw[1] = "m"
        /\ frame[c].remaining = frame[c].raw

\* The six English attributes of a relativedelta, largest first.
DeltaNames ==
    << <<"y","e","a","r","s">>, <<"m","o","n","t","h","s">>, <<"d","a","y","s">>,
       <<"h","o","u","r","s">>, <<"m","i","n","u","t","e","s">>, Seconds >>

RECURSIVE NonZero(_, _)
\* The non-zero components of delta from the k-th on, each with its unit word.
NonZero(delta, k) ==
    IF k > Len(DeltaNames) THEN <<>>
    ELSE IF delta[DeltaNames[k]] = 0 THEN NonZero(delta, k + 1)
    ELSE <<Component(delta[DeltaNames[k]], attrs[k])>> \o NonZero(delta, k + 1)

\* C8: human_timedelta returns a string for every pair of instants: "now" when no
\* component is non-zero, else the largest one, two ("A and B") or three
\* ("A, B and C") of the non-zero components, with the tense suffix only when the
\* target is not after the source.
C8_Formatter ==
    fmt.called =>
        LET future == FmtLess(fmt.source, fmt.dt)
            delta0 == IF future THEN RelativeDeltaBetween(fmt.dt, fmt.source)
                      ELSE RelativeDeltaBetween(fmt.source, fmt.dt)
            delta  == IF delta0[Microseconds] # 0 /\ delta0[Seconds] # 0
                      THEN PlusOneSecond(delta0) ELSE delta0
            parts  == NonZero(delta, 1)
            suffix == IF future THEN <<>> ELSE <<" ","s","i","d","e","n">>
        IN  /\ fmt.raised = "none"
            /\ fmt.text =
                 IF parts = <<>> THEN <<"n","o","w">>
                 ELSE IF Len(parts) = 1 THEN parts[1] \o suffix
                 ELSE IF Len(parts) = 2 THEN parts[1] \o And \o parts[2] \o suffix
                 ELSE parts[1] \o <<",", " ">> \o parts[2] \o And \o parts[3] \o suffix

\* C9: with two conversions on one converter, one of them waiting for the secondary
\* converter while the other runs, the result each caller holds has the raw input,
\* instant, reference now and secondary value of its own call, and stays so.
C9_Ownership ==
    \A c \in SharedCallers :
        pc[c] = "done" =>
            /\ self.raw = frame[c].raw
            /\ self.dt = frame[c].dt
            /\ self.now = frame[c].now
            /\ self.arg = SecondaryValue(frame[c].remaining)

\* C10: Time and FutureTime try the grammar on the whole argument and ask the
\* resolver only when that fails; an instant before now makes Time succeed with the
\* past flag set and FutureTime fail with the past-time error; a whole-argument
\* short duration has the past flag clear and never makes FutureTime fail.
C10_Variants ==
    tm.cls # "none" =>
        LET whole == Len(tm.argument) > 0 /\ RegexMatch(tm.argument).end = Len(tm.argument)
            resolved == IF tm.pd.hasTime THEN tm.pd.dt
                        ELSE [tm.pd.dt EXCEPT !.tod = tm.now.tod]
        IN  /\ whole => ~tm.nlpCalled /\ ~tm.past /\ tm.exc = "none"
            /\ ~whole => tm.nlpCalled
            /\ (~whole /\ (tm.pd.hasDate \/ tm.pd.hasTime)) =>
                 IF DtLess(resolved, tm.now)
                 THEN /\ tm.cls = "Time" => tm.exc = "none" /\ tm.past
                      /\ tm.cls = "FutureTime" => tm.exc = "PastTime"
                 ELSE tm.exc = "none" /\ ~tm.past

\* FutureTime refused a phrase that resolves to a past instant.
C10_Witness ==
    /\ tm.cls = "FutureTime"
    /\ tm.nlpCalled
    /\ tm.exc = "PastTime"
    /\ tm.past

====
